---- MODULE Spec2Model ----
(***************************************************************************)
(* StellarStream: a token-streaming contract (contracts/src/lib.rs).       *)
(* The contract's instance and persistent storage, the token balances it   *)
(* moves and the ledger clock are the state; every public entry point is   *)
(* one action.  A panic aborts the call and rolls every write back, so a   *)
(* failing call changes nothing but the record of the last call.           *)
(***************************************************************************)
EXTENDS Integers, Sequences, FiniteSets, TLC

\* ------------------------------------------------------------------ bounds
MaxTime == 2
MaxAmount == 10
MaxStreams == 2
MaxBatch == 2
InitBal == 20
MaxMathTime == 4

\* --------------------------------------------------------------- constants
MaxFeeBps == 1000
BpsDenominator == 10000

\* --------------------------------------------------------------- universes
Addr == {"a", "b"}
Contract == "contract"
Token == {"tok"}
Role == {"Admin", "Pauser", "TreasuryManager"}
Holder == Addr \cup {Contract}
StreamIds == 1..MaxStreams

VARIABLES
    roles,          \* DataKey::Role(Address, Role) entries that are present
    admin,          \* DataKey::Admin: {} when absent, {a} when set
    is_paused,      \* DataKey::IsPaused: {} when absent, {b} when set
    fee_bps,        \* DataKey::FeeBps: {} when absent, {n} when set
    treasury,       \* DataKey::Treasury: {} when absent, {a} when set
    stream_counter, \* DataKey::StreamId, 0 when absent
    streams,        \* DataKey::Stream(id) entries: a function on the stored ids
    balance,        \* token balances: balance[token][holder]
    now,            \* env.ledger().timestamp()
    lock,           \* temporary-storage slot DataKey::ReentrancyLock
    frame,          \* the guarded calls suspended inside a token transfer
    cancelled,      \* history: the ids cancel_stream has removed
    returned,       \* history: what withdraw has returned so far, per stored stream
    last            \* the call that made the last step and how it ended

vars == <<roles, admin, is_paused, fee_bps, treasury, stream_counter, streams,
          balance, now, lock, frame, cancelled, returned, last>>

storage == <<roles, admin, is_paused, fee_bps, treasury, stream_counter, streams,
             balance>>

\* ------------------------------------------------------------------- types
Stream(sender, receiver, token, amount, start_time, cliff_time, end_time, withdrawn_amount) ==
    [sender |-> sender, receiver |-> receiver, token |-> token, amount |-> amount,
     start_time |-> start_time, cliff_time |-> cliff_time, end_time |-> end_time,
     withdrawn_amount |-> withdrawn_amount]

StreamRequest(receiver, amount, start_time, cliff_time, end_time) ==
    [receiver |-> receiver, amount |-> amount, start_time |-> start_time,
     cliff_time |-> cliff_time, end_time |-> end_time]

\* ------------------------------------------------------------- vesting math
\* Rust's integer division truncates toward zero.
TruncDiv(a, b) ==
    IF a >= 0 THEN a \div b ELSE -((-a) \div b)

calculate_unlocked(total, start, cliff, end, t) ==
    IF t < cliff THEN 0
    ELSE IF t >= end THEN total
    ELSE TruncDiv(total * (t - start), end - start)

\* Mutant: the linear release is counted from the cliff.
unlocked_at_from_cliff(s, t) ==
    calculate_unlocked(s.amount, s.cliff_time, s.cliff_time, s.end_time, t)

unlocked_at(s, t) ==
    calculate_unlocked(s.amount, s.start_time, s.cliff_time, s.end_time, t)

\* The times are u64 (types.rs:19-21): on the linear branch `now - start` is
\* below zero when cliff_time < start_time, and the call panics.
unlock_overflows(s, t) ==
    t >= s.cliff_time /\ t < s.end_time /\ t < s.start_time

Pos(x) ==
    IF x > 0 THEN x ELSE 0

\* ------------------------------------------------------------------ helpers
has_role(account, role) ==
    <<account, role>> \in roles

check_not_paused ==
    ~(TRUE \in is_paused)

\* token::Client::transfer: panics unless `from` holds `amt` (amt >= 0).
can_transfer(bal, token, from, amt) ==
    amt >= 0 /\ bal[token][from] >= amt

transfer(bal, token, from, to, amt) ==
    [bal EXCEPT ![token] = [[@ EXCEPT ![from] = @ - amt] EXCEPT ![to] = @ + amt]]

Call(op, caller, result, id, ret) ==
    [op |-> op, caller |-> caller, result |-> result, id |-> id, ret |-> ret,
     depth |-> Len(frame)]

\* Mutant: the principal moved before the treasury is found missing stays moved.
Fails_after_debit(op, caller, result, id) ==
    /\ last' = Call(op, caller, result, id, 0)
    /\ balance' = IF result = "no_treasury"
                  THEN [t \in Token |->
                          [[balance[t] EXCEPT ![caller] = @ - (MaxAmount - 1)]
                              EXCEPT ![Contract] = @ + (MaxAmount - 1)]]
                  ELSE balance
    /\ UNCHANGED <<roles, admin, is_paused, fee_bps, treasury, stream_counter, streams,
                   now, lock, frame, cancelled, returned>>

\* A call that panics: every write is rolled back.
Fails(op, caller, result, id) ==
    /\ last' = Call(op, caller, result, id, 0)
    /\ UNCHANGED <<storage, now, lock, frame, cancelled, returned>>

TopLevel ==
    frame = <<>>

\* --------------------------------------------------------------------- Init
Init ==
    /\ roles = {}
    /\ admin = {}
    /\ is_paused = {}
    /\ fee_bps = {}
    /\ treasury = {}
    /\ stream_counter = 0
    /\ streams = <<>>
    /\ balance = [t \in Token |-> [h \in Holder |-> IF h = Contract THEN 0 ELSE InitBal]]
    /\ now = 0
    /\ lock = FALSE
    /\ frame = <<>>
    /\ cancelled = {}
    /\ returned = <<>>
    /\ last = [op |-> "deploy", caller |-> Contract, result |-> "ok", id |-> 0, ret |-> 0,
               depth |-> 0]

\* ------------------------------------------------------------- RBAC actions
initialize(adm) ==
    /\ TopLevel
    /\ roles' = roles \cup {<<adm, "Admin">>, <<adm, "Pauser">>, <<adm, "TreasuryManager">>}
    /\ admin' = {adm}
    /\ is_paused' = {FALSE}
    /\ last' = Call("initialize", adm, "ok", 0, 0)
    /\ UNCHANGED <<fee_bps, treasury, stream_counter, streams, balance, now, lock, frame, cancelled, returned>>

\* Mutant: the caller's Admin grant is not checked.
grant_role_unchecked(adm, account, role) ==
    /\ TopLevel
    /\ roles' = roles \cup {<<account, role>>}
    /\ last' = Call("grant_role", adm, "ok", 0, 0)
    /\ UNCHANGED <<admin, is_paused, fee_bps, treasury, stream_counter, streams,
                   balance, now, lock, frame, cancelled, returned>>

grant_role(adm, account, role) ==
    /\ TopLevel
    /\ IF ~has_role(adm, "Admin")
       THEN Fails("grant_role", adm, "unauthorized", 0)
       ELSE /\ roles' = roles \cup {<<account, role>>}
            /\ last' = Call("grant_role", adm, "ok", 0, 0)
            /\ UNCHANGED <<admin, is_paused, fee_bps, treasury, stream_counter, streams,
                           balance, now, lock, frame, cancelled, returned>>

revoke_role(adm, account, role) ==
    /\ TopLevel
    /\ IF ~has_role(adm, "Admin")
       THEN Fails("revoke_role", adm, "unauthorized", 0)
       ELSE /\ roles' = roles \ {<<account, role>>}
            /\ last' = Call("revoke_role", adm, "ok", 0, 0)
            /\ UNCHANGED <<admin, is_paused, fee_bps, treasury, stream_counter, streams,
                           balance, now, lock, frame, cancelled, returned>>

\* -------------------------------------------------------------- fee actions
initialize_fee(adm, bps, tre) ==
    /\ TopLevel
    /\ IF ~has_role(adm, "TreasuryManager")
       THEN Fails("initialize_fee", adm, "unauthorized", 0)
       ELSE IF bps > MaxFeeBps
       THEN Fails("initialize_fee", adm, "fee_too_high", 0)
       ELSE /\ fee_bps' = {bps}
            /\ treasury' = {tre}
            /\ last' = Call("initialize_fee", adm, "ok", 0, 0)
            /\ UNCHANGED <<roles, admin, is_paused, stream_counter, streams, balance,
                           now, lock, frame, cancelled, returned>>

\* Mutant: the rate is stored without the cap.
update_fee_uncapped(manager, bps) ==
    /\ TopLevel
    /\ IF ~has_role(manager, "TreasuryManager")
       THEN Fails("update_fee", manager, "unauthorized", 0)
       ELSE /\ fee_bps' = {bps}
            /\ last' = Call("update_fee", manager, "ok", 0, 0)
            /\ UNCHANGED <<roles, admin, is_paused, treasury, stream_counter, streams,
                           balance, now, lock, frame, cancelled, returned>>

update_fee(manager, bps) ==
    /\ TopLevel
    /\ IF ~has_role(manager, "TreasuryManager")
       THEN Fails("update_fee", manager, "unauthorized", 0)
       ELSE IF bps > MaxFeeBps
       THEN Fails("update_fee", manager, "fee_too_high", 0)
       ELSE /\ fee_bps' = {bps}
            /\ last' = Call("update_fee", manager, "ok", 0, 0)
            /\ UNCHANGED <<roles, admin, is_paused, treasury, stream_counter, streams,
                           balance, now, lock, frame, cancelled, returned>>

update_treasury(manager, tre) ==
    /\ TopLevel
    /\ IF ~has_role(manager, "TreasuryManager")
       THEN Fails("update_treasury", manager, "unauthorized", 0)
       ELSE /\ treasury' = {tre}
            /\ last' = Call("update_treasury", manager, "ok", 0, 0)
            /\ UNCHANGED <<roles, admin, is_paused, fee_bps, stream_counter, streams,
                           balance, now, lock, frame, cancelled, returned>>

\* ------------------------------------------------------------ pause actions
set_pause(pauser, paused) ==
    /\ TopLevel
    /\ IF ~has_role(pauser, "Pauser")
       THEN Fails("set_pause", pauser, "unauthorized", 0)
       ELSE /\ is_paused' = {paused}
            /\ last' = Call("set_pause", pauser, "ok", 0, 0)
            /\ UNCHANGED <<roles, admin, fee_bps, treasury, stream_counter, streams,
                           balance, now, lock, frame, cancelled, returned>>

\* ------------------------------------------------------------------- clock
Tick ==
    /\ TopLevel
    /\ now < MaxTime
    /\ now' = now + 1
    /\ last' = Call("tick", Contract, "ok", 0, 0)
    /\ UNCHANGED <<storage, lock, frame, cancelled, returned>>

\* ---------------------------------------------------------- stream creation
\* Mutant: the fee is rounded up.
fee_of_rounds_up(amount) ==
    LET bps == IF fee_bps = {} THEN 0 ELSE CHOOSE n \in fee_bps : TRUE
    IN  TruncDiv(amount * bps + BpsDenominator - 1, BpsDenominator)

\* lib.rs:192: the fee is computed on the gross amount, truncating.
fee_of(amount) ==
    LET bps == IF fee_bps = {} THEN 0 ELSE CHOOSE n \in fee_bps : TRUE
    IN  TruncDiv(amount * bps, BpsDenominator)

\* lib.rs:180-188: the argument checks of create_stream, in the code's order.
create_stream_check(amount, start_time, cliff_time, end_time) ==
    IF end_time <= start_time THEN "bad_time"
    ELSE IF cliff_time < start_time \/ cliff_time >= end_time THEN "bad_cliff"
    ELSE IF amount <= 0 THEN "bad_amount"
    ELSE "ok"

create_stream_outcome(sender, token, amount, start_time, cliff_time, end_time) ==
    LET fee_amount == fee_of(amount)
        principal == amount - fee_amount
    IN  IF ~check_not_paused THEN "paused"
        ELSE IF create_stream_check(amount, start_time, cliff_time, end_time) # "ok"
        THEN create_stream_check(amount, start_time, cliff_time, end_time)
        ELSE IF ~can_transfer(balance, token, sender, principal) THEN "no_funds"
        ELSE IF fee_amount > 0 /\ treasury = {} THEN "no_treasury"
        ELSE IF fee_amount > 0 /\ balance[token][sender] < amount THEN "no_funds"
        ELSE "ok"

create_stream(sender, receiver, token, amount, start_time, cliff_time, end_time) ==
    LET outcome == create_stream_outcome(sender, token, amount, start_time, cliff_time, end_time)
        fee_amount == fee_of(amount)
        principal == amount - fee_amount
        escrowed == transfer(balance, token, sender, Contract, principal)
        stream_id == stream_counter + 1
    IN  /\ TopLevel
        /\ IF outcome # "ok"
           THEN Fails("create_stream", sender, outcome, 0)
           ELSE /\ stream_counter < MaxStreams
                /\ balance' = IF fee_amount > 0
                              THEN transfer(escrowed, token, sender,
                                            CHOOSE t \in treasury : TRUE, fee_amount)
                              ELSE escrowed
                /\ stream_counter' = stream_id
                /\ streams' = [i \in DOMAIN streams \cup {stream_id} |->
                                 IF i = stream_id
                                 THEN Stream(sender, receiver, token, principal, start_time,
                                             cliff_time, end_time, 0)
                                 ELSE streams[i]]
                /\ returned' = [i \in DOMAIN streams' |->
                                  IF i = stream_id THEN 0 ELSE returned[i]]
                /\ last' = Call("create_stream", sender, "ok", stream_id, stream_id)
                /\ UNCHANGED <<roles, admin, is_paused, fee_bps, treasury, now, lock, frame,
                               cancelled>>

\* Mutant: the batch path makes the pause check of create_stream.
batch_check_when_unpaused(requests) ==
    IF ~check_not_paused THEN "paused"
    ELSE IF \E i \in 1..Len(requests) :
          /\ \A j \in 1..(i - 1) :
                requests[j].end_time > requests[j].start_time /\ requests[j].amount > 0
          /\ requests[i].end_time <= requests[i].start_time
    THEN "bad_time"
    ELSE IF \E i \in 1..Len(requests) : requests[i].amount <= 0
    THEN "bad_amount"
    ELSE "ok"

\* Mutant: the amounts are not validated.
batch_check_skips_amount(requests) ==
    IF \E i \in 1..Len(requests) : requests[i].end_time <= requests[i].start_time
    THEN "bad_time"
    ELSE "ok"

\* lib.rs:247-256: the validation pass of create_batch_streams.
batch_check(requests) ==
    IF \E i \in 1..Len(requests) :
          /\ \A j \in 1..(i - 1) :
                requests[j].end_time > requests[j].start_time /\ requests[j].amount > 0
          /\ requests[i].end_time <= requests[i].start_time
    THEN "bad_time"
    ELSE IF \E i \in 1..Len(requests) : requests[i].amount <= 0
    THEN "bad_amount"
    ELSE "ok"

RECURSIVE batch_total(_)
batch_total(requests) ==
    IF requests = <<>> THEN 0
    ELSE requests[1].amount + batch_total(Tail(requests))

create_batch_streams(sender, token, requests) ==
    LET total_amount == batch_total(requests)
        first == stream_counter
        n == Len(requests)
    IN  /\ TopLevel
        /\ IF batch_check(requests) # "ok"
           THEN Fails("create_batch_streams", sender, batch_check(requests), 0)
           ELSE IF ~can_transfer(balance, token, sender, total_amount)
           THEN Fails("create_batch_streams", sender, "no_funds", 0)
           ELSE /\ stream_counter + n <= MaxStreams
                /\ balance' = transfer(balance, token, sender, Contract, total_amount)
                /\ streams' = [i \in DOMAIN streams \cup ((first + 1)..(first + n)) |->
                                 IF i > first /\ i <= first + n
                                 THEN Stream(sender, requests[i - first].receiver, token,
                                             requests[i - first].amount,
                                             requests[i - first].start_time,
                                             requests[i - first].cliff_time,
                                             requests[i - first].end_time, 0)
                                 ELSE streams[i]]
                /\ stream_counter' = first + n
                /\ returned' = [i \in DOMAIN streams' |->
                                  IF i > first THEN 0 ELSE returned[i]]
                /\ last' = Call("create_batch_streams", sender, "ok", first + n, n)
                /\ UNCHANGED <<roles, admin, is_paused, fee_bps, treasury, now, lock, frame,
                               cancelled>>

\* ------------------------------------------------------------------ withdraw
\* Mutant: the amount already withdrawn is not subtracted.
withdrawable_amount_not_net(stream, t) ==
    unlocked_at(stream, t)

\* lib.rs:313-321
withdrawable_amount(stream, t) ==
    unlocked_at(stream, t) - stream.withdrawn_amount

\* Mutant: a withdrawable amount of zero passes the check.
withdraw_outcome_allows_zero(stream_id, receiver) ==
    IF ~check_not_paused THEN "paused"
    ELSE IF stream_id \notin DOMAIN streams THEN "not_found"
    ELSE IF receiver # streams[stream_id].receiver THEN "unauthorized"
    ELSE IF unlock_overflows(streams[stream_id], now) THEN "overflow"
    ELSE IF unlocked_at(streams[stream_id], now) - streams[stream_id].withdrawn_amount < 0
    THEN "nothing"
    ELSE "ok"

\* Mutant: the caller is not compared with the stream's receiver.
withdraw_outcome_any_caller(stream_id, receiver) ==
    IF ~check_not_paused THEN "paused"
    ELSE IF stream_id \notin DOMAIN streams THEN "not_found"
    ELSE IF unlock_overflows(streams[stream_id], now) THEN "overflow"
    ELSE IF unlocked_at(streams[stream_id], now) - streams[stream_id].withdrawn_amount <= 0
    THEN "nothing"
    ELSE IF balance[streams[stream_id].token][Contract]
              < unlocked_at(streams[stream_id], now) - streams[stream_id].withdrawn_amount
    THEN "no_funds"
    ELSE "ok"

\* lib.rs:298-325 and the transfer's own check, in the code's order.
withdraw_outcome(stream_id, receiver) ==
    IF ~check_not_paused THEN "paused"
    ELSE IF stream_id \notin DOMAIN streams THEN "not_found"
    ELSE IF receiver # streams[stream_id].receiver THEN "unauthorized"
    ELSE IF unlock_overflows(streams[stream_id], now) THEN "overflow"
    ELSE IF withdrawable_amount(streams[stream_id], now) <= 0 THEN "nothing"
    ELSE IF ~can_transfer(balance, streams[stream_id].token, Contract,
                          withdrawable_amount(streams[stream_id], now))
    THEN "no_funds"
    ELSE "ok"

\* Mutant: the updated stream is not written back.
withdraw_effect_not_persisted(stream_id, receiver) ==
    LET stream == streams[stream_id]
        w == unlocked_at(stream, now) - stream.withdrawn_amount
    IN  /\ balance' = transfer(balance, stream.token, Contract, receiver, w)
        /\ returned' = [returned EXCEPT ![stream_id] = @ + w]
        /\ last' = Call("withdraw", receiver, "ok", stream_id, w)
        /\ UNCHANGED <<roles, admin, is_paused, fee_bps, treasury, stream_counter,
                       streams, now, lock, frame, cancelled>>

\* Mutant: a lock is taken on entry and not released on return.
withdraw_effect_keeps_lock(stream_id, receiver) ==
    LET stream == streams[stream_id]
        w == unlocked_at(stream, now) - stream.withdrawn_amount
    IN  /\ balance' = transfer(balance, stream.token, Contract, receiver, w)
        /\ streams' = [streams EXCEPT ![stream_id].withdrawn_amount = @ + w]
        /\ returned' = [returned EXCEPT ![stream_id] = @ + w]
        /\ lock' = TRUE
        /\ last' = Call("withdraw", receiver, "ok", stream_id, w)
        /\ UNCHANGED <<roles, admin, is_paused, fee_bps, treasury, stream_counter,
                       now, frame, cancelled>>

\* lib.rs:327-345: the transfer, then the write of the local copy of the stream.
withdraw_effect(stream_id, receiver) ==
    LET stream == streams[stream_id]
        w == withdrawable_amount(stream, now)
    IN  /\ balance' = transfer(balance, stream.token, Contract, receiver, w)
        /\ streams' = [streams EXCEPT ![stream_id].withdrawn_amount = @ + w]
        /\ returned' = [returned EXCEPT ![stream_id] = @ + w]
        /\ last' = Call("withdraw", receiver, "ok", stream_id, w)
        /\ UNCHANGED <<roles, admin, is_paused, fee_bps, treasury, stream_counter,
                       now, lock, frame, cancelled>>

withdraw_call(stream_id, receiver) ==
    IF withdraw_outcome(stream_id, receiver) # "ok"
    THEN Fails("withdraw", receiver, withdraw_outcome(stream_id, receiver), stream_id)
    ELSE withdraw_effect(stream_id, receiver)

withdraw(stream_id, receiver) ==
    /\ TopLevel
    /\ withdraw_call(stream_id, receiver)

\* ------------------------------------------------------------- cancel_stream
\* lib.rs:373
withdrawable_to_receiver(stream, t) ==
    unlocked_at(stream, t) - stream.withdrawn_amount

\* Mutant: the sender is refunded everything not yet withdrawn.
refund_to_sender_all_unwithdrawn(stream, t) ==
    stream.amount - stream.withdrawn_amount

\* lib.rs:374
refund_to_sender(stream, t) ==
    stream.amount - unlocked_at(stream, t)

\* Mutant: the end of the stream is compared with > instead of >=.
cancel_outcome_after_end_only(signer, stream_id) ==
    IF ~check_not_paused THEN "paused"
    ELSE IF stream_id \notin DOMAIN streams THEN "not_found"
    ELSE IF signer # streams[stream_id].sender THEN "auth"
    ELSE IF now > streams[stream_id].end_time THEN "completed"
    ELSE IF unlock_overflows(streams[stream_id], now) THEN "overflow"
    ELSE IF balance[streams[stream_id].token][Contract]
              < Pos(unlocked_at(streams[stream_id], now)
                    - streams[stream_id].withdrawn_amount)
                + Pos(streams[stream_id].amount - unlocked_at(streams[stream_id], now))
    THEN "no_funds"
    ELSE "ok"

\* lib.rs:349-363 and the transfers' own checks, in the code's order.
cancel_outcome(signer, stream_id) ==
    IF ~check_not_paused THEN "paused"
    ELSE IF stream_id \notin DOMAIN streams THEN "not_found"
    ELSE IF signer # streams[stream_id].sender THEN "auth"
    ELSE IF now >= streams[stream_id].end_time THEN "completed"
    ELSE IF unlock_overflows(streams[stream_id], now) THEN "overflow"
    ELSE IF balance[streams[stream_id].token][Contract]
              < Pos(withdrawable_to_receiver(streams[stream_id], now))
                + Pos(refund_to_sender(streams[stream_id], now))
    THEN "no_funds"
    ELSE "ok"

\* Mutant: the sender's refund is not paid.
cancel_transfers_receiver_only(stream) ==
    IF withdrawable_to_receiver(stream, now) > 0
    THEN transfer(balance, stream.token, Contract, stream.receiver,
                  withdrawable_to_receiver(stream, now))
    ELSE balance

\* lib.rs:376-389: the two transfers, each made only when positive.
cancel_transfers(stream) ==
    LET to_receiver == withdrawable_to_receiver(stream, now)
        to_sender == refund_to_sender(stream, now)
        paid == IF to_receiver > 0
                THEN transfer(balance, stream.token, Contract, stream.receiver, to_receiver)
                ELSE balance
    IN  IF to_sender > 0
        THEN transfer(paid, stream.token, Contract, stream.sender, to_sender)
        ELSE paid

\* Mutant: the entry is not removed.
cancel_effect_keeps_entry(signer, stream_id) ==
    /\ balance' = cancel_transfers(streams[stream_id])
    /\ cancelled' = cancelled \cup {stream_id}
    /\ last' = Call("cancel_stream", signer, "ok", stream_id, 0)
    /\ UNCHANGED <<roles, admin, is_paused, fee_bps, treasury, stream_counter,
                   streams, returned, now, lock, frame>>

\* Mutant: cancelling the newest stream hands its id back to the counter.
cancel_effect_frees_id(signer, stream_id) ==
    /\ balance' = cancel_transfers(streams[stream_id])
    /\ streams' = [i \in DOMAIN streams \ {stream_id} |-> streams[i]]
    /\ returned' = [i \in DOMAIN streams' |-> returned[i]]
    /\ cancelled' = cancelled \cup {stream_id}
    /\ stream_counter' = IF stream_id = stream_counter
                         THEN stream_counter - 1 ELSE stream_counter
    /\ last' = Call("cancel_stream", signer, "ok", stream_id, 0)
    /\ UNCHANGED <<roles, admin, is_paused, fee_bps, treasury, now, lock, frame>>

\* lib.rs:376-394: the transfers, then the removal of the entry.
cancel_effect(signer, stream_id) ==
    /\ balance' = cancel_transfers(streams[stream_id])
    /\ streams' = [i \in DOMAIN streams \ {stream_id} |-> streams[i]]
    /\ returned' = [i \in DOMAIN streams' |-> returned[i]]
    /\ cancelled' = cancelled \cup {stream_id}
    /\ last' = Call("cancel_stream", signer, "ok", stream_id, 0)
    /\ UNCHANGED <<roles, admin, is_paused, fee_bps, treasury, stream_counter,
                   now, lock, frame>>

cancel_call(signer, stream_id) ==
    IF cancel_outcome(signer, stream_id) # "ok"
    THEN Fails("cancel_stream", signer, cancel_outcome(signer, stream_id), stream_id)
    ELSE cancel_effect(signer, stream_id)

cancel_stream(signer, stream_id) ==
    /\ TopLevel
    /\ cancel_call(signer, stream_id)

\* --------------------------------------------------------- transfer_receiver
\* Mutant: the stream's sender authorises the change.
transfer_receiver_by_sender(signer, stream_id, new_receiver) ==
    /\ TopLevel
    /\ IF stream_id \notin DOMAIN streams
       THEN Fails("transfer_receiver", signer, "not_found", stream_id)
       ELSE IF signer # streams[stream_id].sender
       THEN Fails("transfer_receiver", signer, "auth", stream_id)
       ELSE /\ streams' = [streams EXCEPT ![stream_id].receiver = new_receiver]
            /\ last' = Call("transfer_receiver", signer, "ok", stream_id, 0)
            /\ UNCHANGED <<roles, admin, is_paused, fee_bps, treasury, stream_counter,
                           balance, now, lock, frame, cancelled, returned>>

transfer_receiver(signer, stream_id, new_receiver) ==
    /\ TopLevel
    /\ IF stream_id \notin DOMAIN streams
       THEN Fails("transfer_receiver", signer, "not_found", stream_id)
       ELSE IF signer # streams[stream_id].receiver
       THEN Fails("transfer_receiver", signer, "auth", stream_id)
       ELSE /\ streams' = [streams EXCEPT ![stream_id].receiver = new_receiver]
            /\ last' = Call("transfer_receiver", signer, "ok", stream_id, 0)
            /\ UNCHANGED <<roles, admin, is_paused, fee_bps, treasury, stream_counter,
                           balance, now, lock, frame, cancelled, returned>>

\* ------------------------------------------------- calls made from a transfer
\* The token is a contract the stream's creator names (lib.rs:327, 376); its
\* transfer may call back into this contract before it returns.  withdraw and
\* cancel_stream read and write no lock: a call made from inside a transfer runs
\* the same code as any other.
InTransfer ==
    Len(frame) = 1

\* withdraw up to and including its transfer (lib.rs:298-332).
withdraw_enter(stream_id, receiver) ==
    LET stream == streams[stream_id]
        w == withdrawable_amount(stream, now)
    IN  /\ TopLevel
        /\ withdraw_outcome(stream_id, receiver) = "ok"
        /\ balance' = transfer(balance, stream.token, Contract, receiver, w)
        /\ returned' = [returned EXCEPT ![stream_id] = @ + w]
        /\ frame' = <<[op |-> "withdraw", stream_id |-> stream_id, stream |-> stream,
                       amount |-> w, caller |-> receiver]>>
        /\ last' = Call("withdraw", receiver, "in_transfer", stream_id, w)
        /\ UNCHANGED <<roles, admin, is_paused, fee_bps, treasury, stream_counter,
                       streams, now, lock, cancelled>>

\* withdraw after its transfer (lib.rs:334-345): the local copy is written back.
withdraw_resume ==
    /\ InTransfer
    /\ frame[1].op = "withdraw"
    /\ LET f == frame[1]
           written == [f.stream EXCEPT !.withdrawn_amount = @ + f.amount]
       IN  /\ streams' = [i \in DOMAIN streams \cup {f.stream_id} |->
                            IF i = f.stream_id THEN written ELSE streams[i]]
           /\ returned' = [i \in DOMAIN streams' |->
                             IF i \in DOMAIN returned THEN returned[i] ELSE f.amount]
           /\ last' = [op |-> "withdraw", caller |-> f.caller, result |-> "ok",
                       id |-> f.stream_id, ret |-> f.amount, depth |-> 0]
    /\ frame' = <<>>
    /\ UNCHANGED <<roles, admin, is_paused, fee_bps, treasury, stream_counter,
                   balance, now, lock, cancelled>>

\* cancel_stream up to and including its transfers (lib.rs:349-389).
cancel_enter(signer, stream_id) ==
    /\ TopLevel
    /\ cancel_outcome(signer, stream_id) = "ok"
    /\ balance' = cancel_transfers(streams[stream_id])
    /\ frame' = <<[op |-> "cancel_stream", stream_id |-> stream_id,
                   stream |-> streams[stream_id], amount |-> 0, caller |-> signer]>>
    /\ last' = Call("cancel_stream", signer, "in_transfer", stream_id, 0)
    /\ UNCHANGED <<roles, admin, is_paused, fee_bps, treasury, stream_counter,
                   streams, now, lock, cancelled, returned>>

\* cancel_stream after its transfers (lib.rs:391-394): the entry is removed.
cancel_resume ==
    /\ InTransfer
    /\ frame[1].op = "cancel_stream"
    /\ streams' = [i \in DOMAIN streams \ {frame[1].stream_id} |-> streams[i]]
    /\ returned' = [i \in DOMAIN streams' |-> returned[i]]
    /\ cancelled' = cancelled \cup {frame[1].stream_id}
    /\ last' = [op |-> "cancel_stream", caller |-> frame[1].caller, result |-> "ok",
                id |-> frame[1].stream_id, ret |-> 0, depth |-> 0]
    /\ frame' = <<>>
    /\ UNCHANGED <<roles, admin, is_paused, fee_bps, treasury, stream_counter,
                   balance, now, lock>>

\* test.rs:194-198: the slot is written from outside any guarded call.
set_reentrancy_lock ==
    /\ TopLevel
    /\ ~lock
    /\ lock' = TRUE
    /\ last' = Call("set_reentrancy_lock", Contract, "ok", 0, 0)
    /\ UNCHANGED <<storage, now, frame, cancelled, returned>>

nested_withdraw(stream_id, receiver) ==
    /\ InTransfer
    /\ withdraw_call(stream_id, receiver)

nested_cancel_stream(signer, stream_id) ==
    /\ InTransfer
    /\ cancel_call(signer, stream_id)

\* ------------------------------------------------------------- input domains
Senders == {"a"}
Treasuries == {"b"}
AmountInputs == {0, MaxAmount}
\* (start_time, cliff_time, end_time): linear from 0, the same with a cliff, and
\* one triple for each way the time checks can fail.
TimeInputs ==
    {<<0, 0, MaxTime>>, <<0, 1, MaxTime>>, <<1, 1, 1>>, <<1, 0, MaxTime>>,
     <<0, MaxTime, MaxTime>>}
\* create_batch_streams takes requests whose cliff_time lies outside the stream.
RequestInputs ==
    {StreamRequest("b", MaxAmount, 0, 0, MaxTime), StreamRequest("b", MaxAmount, 1, 0, MaxTime),
     StreamRequest("b", MaxAmount, 1, 1, 1), StreamRequest("b", 0, 0, 0, MaxTime)}
Batches == UNION {[1..n -> RequestInputs] : n \in 0..MaxBatch}

\* ------------------------------------------------------------ specifications
\* The stream life cycle under an initialized, pausable contract.
Next ==
    \/ \E adm \in Senders : initialize(adm)
    \/ \E pauser \in Addr, paused \in BOOLEAN : set_pause(pauser, paused)
    \/ \E sender \in Senders, receiver \in Addr, token \in Token, amount \in AmountInputs,
          t \in TimeInputs :
          create_stream(sender, receiver, token, amount, t[1], t[2], t[3])
    \/ \E sender \in Senders, token \in Token, requests \in Batches :
          create_batch_streams(sender, token, requests)
    \/ \E stream_id \in StreamIds, receiver \in Addr : withdraw(stream_id, receiver)
    \/ \E signer \in Addr, stream_id \in StreamIds : cancel_stream(signer, stream_id)
    \/ \E signer \in Addr, stream_id \in StreamIds, new_receiver \in Addr :
          transfer_receiver(signer, stream_id, new_receiver)
    \/ Tick

Spec == Init /\ [][Next]_vars

\* Every entry point, the roles and the fee included, on single-request batches
\* and one receiver.
NextAll ==
    \/ \E adm \in Senders : initialize(adm)
    \/ \E adm \in Addr, account \in Treasuries : grant_role(adm, account, "Pauser")
    \/ \E adm \in Addr, account \in Treasuries : revoke_role(adm, account, "Pauser")
    \/ \E adm \in Addr, tre \in Treasuries : initialize_fee(adm, MaxFeeBps, tre)
    \/ \E manager \in Addr, bps \in {MaxFeeBps, MaxFeeBps + 1} : update_fee(manager, bps)
    \/ \E manager \in Addr, tre \in Treasuries : update_treasury(manager, tre)
    \/ \E pauser \in Addr, paused \in BOOLEAN : set_pause(pauser, paused)
    \/ \E sender \in Senders, receiver \in Treasuries, token \in Token,
          amount \in AmountInputs, t \in {<<0, 0, MaxTime>>, <<1, 1, 1>>} :
          create_stream(sender, receiver, token, amount, t[1], t[2], t[3])
    \/ \E sender \in Senders, token \in Token, request \in RequestInputs :
          create_batch_streams(sender, token, <<request>>)
    \/ \E stream_id \in StreamIds, receiver \in Addr : withdraw(stream_id, receiver)
    \/ \E signer \in Addr, stream_id \in StreamIds : cancel_stream(signer, stream_id)
    \/ \E signer \in Addr, stream_id \in StreamIds, new_receiver \in Senders :
          transfer_receiver(signer, stream_id, new_receiver)
    \/ Tick

SpecAll == Init /\ [][NextAll]_vars

\* The guarded calls with a token whose transfer calls back, one level deep.
NextNested ==
    \/ \E sender \in Senders, receiver \in Addr, token \in Token :
          create_stream(sender, receiver, token, MaxAmount, 0, 0, MaxTime)
    \/ \E stream_id \in StreamIds, receiver \in Addr : withdraw(stream_id, receiver)
    \/ \E signer \in Addr, stream_id \in StreamIds : cancel_stream(signer, stream_id)
    \/ \E stream_id \in StreamIds, receiver \in Addr : withdraw_enter(stream_id, receiver)
    \/ \E signer \in Addr, stream_id \in StreamIds : cancel_enter(signer, stream_id)
    \/ \E stream_id \in StreamIds, receiver \in Addr : nested_withdraw(stream_id, receiver)
    \/ \E signer \in Addr, stream_id \in StreamIds : nested_cancel_stream(signer, stream_id)
    \/ withdraw_resume
    \/ cancel_resume
    \/ set_reentrancy_lock
    \/ Tick

SpecNested == Init /\ [][NextNested]_vars

\* The fee configuration and both ways of creating streams, under every fee rate
\* on either side of the cap and a treasury that may be the sender itself.
FeeInputs == {0, MaxFeeBps \div 2, MaxFeeBps, MaxFeeBps + 1}

NextFee ==
    \/ \E adm \in Senders : initialize(adm)
    \/ \E adm \in Addr, account \in Treasuries : grant_role(adm, account, "TreasuryManager")
    \/ \E adm \in Addr, bps \in FeeInputs, tre \in Addr : initialize_fee(adm, bps, tre)
    \/ \E manager \in Addr, bps \in FeeInputs : update_fee(manager, bps)
    \/ \E manager \in Addr, tre \in Addr : update_treasury(manager, tre)
    \/ \E pauser \in Addr, paused \in BOOLEAN : set_pause(pauser, paused)
    \/ \E sender \in Senders, receiver \in Treasuries, token \in Token,
          amount \in AmountInputs :
          create_stream(sender, receiver, token, amount, 0, 0, MaxTime)
    \/ \E sender \in Senders, token \in Token, requests \in Batches :
          create_batch_streams(sender, token, requests)

SpecFee == Init /\ [][NextFee]_vars

\* The role grants: every grant and revocation by either identity.
NextRoles ==
    \/ \E adm \in Senders : initialize(adm)
    \/ \E adm \in Addr, account \in Addr, role \in Role : grant_role(adm, account, role)
    \/ \E adm \in Addr, account \in Addr, role \in Role : revoke_role(adm, account, role)
    \/ \E pauser \in Addr, paused \in BOOLEAN : set_pause(pauser, paused)

SpecRoles == Init /\ [][NextRoles]_vars

\* The unlock computation on its own: one stored stream for every amount and
\* every start_time <= cliff_time < end_time within the bounds, evaluated as
\* withdraw and cancel_stream evaluate it while the ledger time advances.
InitMath ==
    \E amount \in 1..MaxAmount, start_time \in 0..MaxMathTime, cliff_time \in 0..MaxMathTime,
       end_time \in 0..MaxMathTime :
        /\ start_time <= cliff_time /\ cliff_time < end_time
        /\ roles = {}
        /\ admin = {}
        /\ is_paused = {}
        /\ fee_bps = {}
        /\ treasury = {}
        /\ stream_counter = 1
        /\ streams = <<Stream("a", "b", "tok", amount, start_time, cliff_time, end_time, 0)>>
        /\ balance = [t \in Token |->
                        [h \in Holder |-> IF h = Contract THEN amount
                                          ELSE IF h = "a" THEN InitBal - amount
                                          ELSE InitBal]]
        /\ now = 0
        /\ lock = FALSE
        /\ frame = <<>>
        /\ cancelled = {}
        /\ returned = <<0>>
        /\ last = [op |-> "deploy", caller |-> Contract, result |-> "ok", id |-> 0,
                   ret |-> 0, depth |-> 0]

\* lib.rs:312-319, 359-371: the unlocked amount of the stream at the ledger time.
total_unlocked(stream_id) ==
    /\ stream_id \in DOMAIN streams
    /\ last' = Call("calculate_unlocked", Contract, "ok", stream_id,
                    unlocked_at(streams[stream_id], now))
    /\ UNCHANGED <<storage, now, lock, frame, cancelled, returned>>

advance_ledger ==
    /\ now <= MaxMathTime
    /\ now' = now + 1
    /\ last' = Call("tick", Contract, "ok", 0, 0)
    /\ UNCHANGED <<storage, lock, frame, cancelled, returned>>

NextMath ==
    \/ \E stream_id \in StreamIds : total_unlocked(stream_id)
    \/ advance_ledger

SpecMath == InitMath /\ [][NextMath]_vars

\* Streams run to their end: streams made by create_stream and by
\* create_batch_streams, which also stores a request whose cliff_time lies after
\* its end_time.
DrainRequests ==
    {StreamRequest("b", MaxAmount, 0, 0, 1), StreamRequest("b", MaxAmount, 0, MaxTime, 1)}

NextDrain ==
    \/ \E adm \in Senders : initialize(adm)
    \/ \E pauser \in Senders, paused \in BOOLEAN : set_pause(pauser, paused)
    \/ \E sender \in Senders, receiver \in Addr, token \in Token :
          create_stream(sender, receiver, token, MaxAmount, 0, 1, MaxTime)
    \/ \E sender \in Senders, token \in Token, request \in DrainRequests :
          create_batch_streams(sender, token, <<request>>)
    \/ \E stream_id \in StreamIds, receiver \in Addr : withdraw(stream_id, receiver)
    \/ \E signer \in Addr, stream_id \in StreamIds : cancel_stream(signer, stream_id)
    \/ \E signer \in Addr, stream_id \in StreamIds, new_receiver \in Addr :
          transfer_receiver(signer, stream_id, new_receiver)
    \/ Tick

SpecDrain == Init /\ [][NextDrain]_vars

\* ==================================================================== claims
GuardedOps == {"withdraw", "cancel_stream"}
StreamOps == {"withdraw", "cancel_stream", "transfer_receiver"}

\* C1: every stored stream has 0 <= withdrawn_amount <= amount, after any
\* sequence of calls with a non-decreasing clock.
C1_WithdrawnWithinAmount ==
    \A id \in DOMAIN streams :
        /\ 0 <= streams[id].withdrawn_amount
        /\ streams[id].withdrawn_amount <= streams[id].amount

\* A stream a withdrawal has just drained to its full amount.
C1_Witness ==
    /\ last.op = "withdraw" /\ last.result = "ok"
    /\ last.id \in DOMAIN streams
    /\ streams[last.id].withdrawn_amount = streams[last.id].amount

\* C2: every stored stream, created singly or in a batch, has
\* start_time < end_time, start_time <= cliff_time < end_time and amount > 0.
C2_StoredStreamsWellFormed ==
    \A id \in DOMAIN streams :
        /\ streams[id].start_time < streams[id].end_time
        /\ streams[id].start_time <= streams[id].cliff_time
        /\ streams[id].cliff_time < streams[id].end_time
        /\ streams[id].amount > 0

\* C3: a withdraw or cancel_stream made from inside the transfer of a withdraw or
\* cancel_stream that has not returned fails and has no effect, and so does one
\* issued while the reentrancy lock is set.
C3_NestedCallFails ==
    ~(/\ last.op \in GuardedOps
      /\ last.result \in {"ok", "in_transfer"}
      /\ last.depth > 0 \/ lock)

\* C4: between guarded calls the reentrancy lock is clear, whether the last
\* withdraw or cancel_stream succeeded or failed, and no call is rejected as
\* reentrant.
C4_LockClearBetweenCalls ==
    /\ TopLevel => ~lock
    /\ last.result # "reentrant"

\* A withdraw has returned successfully and the lock is clear.
C4_Witness ==
    /\ last.op = "withdraw" /\ last.result = "ok"
    /\ TopLevel /\ ~lock

\* C5: a successful withdraw at time now returns
\* w = calculate_unlocked(...) - withdrawn_amount, moves exactly w from escrow to
\* the receiver and adds exactly w to withdrawn_amount; the amounts all the
\* withdrawals of a stream have returned sum to the amount unlocked at the last.
C5_WithdrawPaysUnlockedNet ==
    [][(last'.op = "withdraw" /\ last'.result = "ok") =>
        LET id == last'.id
            s == streams[id]
            w == calculate_unlocked(s.amount, s.start_time, s.cliff_time, s.end_time, now)
                 - s.withdrawn_amount
        IN  /\ last'.ret = w
            /\ w > 0
            /\ last'.caller = s.receiver
            /\ streams'[id] = [s EXCEPT !.withdrawn_amount = s.withdrawn_amount + w]
            /\ balance'[s.token][Contract] = balance[s.token][Contract] - w
            /\ \A h \in Addr :
                  balance'[s.token][h] =
                      balance[s.token][h] + (IF h = s.receiver THEN w ELSE 0)
            /\ returned[id] = s.withdrawn_amount
            /\ returned'[id] =
                  calculate_unlocked(s.amount, s.start_time, s.cliff_time, s.end_time, now)
       ]_vars

\* A later withdrawal of a stream: what has been returned exceeds what the last
\* call returned, and equals the amount unlocked now.
C5_Witness ==
    /\ last.op = "withdraw" /\ last.result = "ok"
    /\ last.id \in DOMAIN streams
    /\ last.ret > 0
    /\ returned[last.id] > last.ret
    /\ returned[last.id] = unlocked_at(streams[last.id], now)

C7_CancelledIdNotFound ==
    [][(last'.op \in StreamOps /\ last'.id \in cancelled) => last'.result = "not_found"]_vars

\* C7, amended: a cancelled id is never stored again, by create_stream or
\* create_batch_streams or otherwise, and every later withdraw, cancel_stream or
\* transfer_receiver on it fails: with stream-not-found, or, for withdraw and
\* cancel_stream while the pause flag is set, with the paused error.
C7_CancelledIdStaysInvalid ==
    [][/\ \A id \in cancelled' : id \notin DOMAIN streams'
       /\ (last'.op \in StreamOps /\ last'.id \in cancelled) =>
              /\ UNCHANGED storage
              /\ \/ last'.result = "not_found"
                 \/ /\ last'.result = "paused"
                    /\ last'.op \in GuardedOps
                    /\ TRUE \in is_paused
       /\ (last'.op \in {"create_stream", "create_batch_streams"} /\ last'.result = "ok") =>
              /\ (DOMAIN streams' \ DOMAIN streams) \cap cancelled = {}
              /\ \A id \in DOMAIN streams' \ DOMAIN streams : id > stream_counter
      ]_vars

\* A withdraw on a cancelled id is refused while another stream is stored.
C7_Witness ==
    /\ last.op = "withdraw" /\ last.result = "not_found"
    /\ last.id \in cancelled
    /\ DOMAIN streams # {}

\* C8: withdraw fails, moving nothing and leaving withdrawn_amount as it was,
\* whenever unlocked(now) - withdrawn_amount <= 0 or the unlocked amount cannot
\* be computed.
C8_NothingToWithdrawFails ==
    [][(/\ last'.op = "withdraw"
        /\ last'.id \in DOMAIN streams
        /\ \/ unlock_overflows(streams[last'.id], now)
           \/ unlocked_at(streams[last'.id], now) - streams[last'.id].withdrawn_amount <= 0) =>
           /\ last'.result # "ok"
           /\ last'.ret = 0
           /\ UNCHANGED storage
       ]_vars

\* The receiver's withdraw is refused right after a withdrawal at the same time.
C8_Witness ==
    /\ last.op = "withdraw" /\ last.result = "nothing"
    /\ last.id \in DOMAIN streams
    /\ last.caller = streams[last.id].receiver
    /\ streams[last.id].withdrawn_amount > 0
    /\ streams[last.id].withdrawn_amount < streams[last.id].amount
    /\ streams[last.id].withdrawn_amount = unlocked_at(streams[last.id], now)

\* C9 as stated: withdraw succeeds only for the stream's current receiver, and a
\* call by anyone else fails as unauthorized and changes nothing.
C9_OtherCallerUnauthorized ==
    [][(last'.op = "withdraw" /\ last'.id \in DOMAIN streams) =>
          /\ last'.result = "ok" => last'.caller = streams[last'.id].receiver
          /\ last'.caller # streams[last'.id].receiver =>
                last'.result = "unauthorized" /\ UNCHANGED storage
       ]_vars

\* C9, amended: withdraw succeeds only for the stream's current receiver; a call
\* by anyone else fails and changes nothing, as unauthorized unless the pause flag
\* is set, and then with the paused error.
C9_OtherCallerRejected ==
    [][(last'.op = "withdraw" /\ last'.id \in DOMAIN streams) =>
          /\ last'.result = "ok" => last'.caller = streams[last'.id].receiver
          /\ last'.caller # streams[last'.id].receiver =>
                /\ UNCHANGED storage
                /\ last'.result = IF TRUE \in is_paused THEN "paused" ELSE "unauthorized"
       ]_vars

\* A caller who is not the stream's receiver is refused although funds are claimable.
C9_Witness ==
    /\ last.op = "withdraw" /\ last.result = "unauthorized"
    /\ last.id \in DOMAIN streams
    /\ streams[last.id].receiver = "a"
    /\ last.caller = "b"
    /\ unlocked_at(streams[last.id], now) > streams[last.id].withdrawn_amount

\* C10: cancel_stream fails whenever now >= end_time, leaving the stream stored
\* and unchanged and moving no funds.
C10_CancelAfterEndFails ==
    [][(/\ last'.op = "cancel_stream"
        /\ last'.id \in DOMAIN streams
        /\ now >= streams[last'.id].end_time) =>
           /\ last'.result # "ok"
           /\ UNCHANGED storage
           /\ last'.id \in DOMAIN streams'
       ]_vars

\* The sender's cancel_stream is refused at the end of a stream not yet drained.
C10_Witness ==
    /\ last.op = "cancel_stream" /\ last.result = "completed"
    /\ last.id \in DOMAIN streams
    /\ last.caller = streams[last.id].sender
    /\ now = streams[last.id].end_time
    /\ streams[last.id].withdrawn_amount < streams[last.id].amount

\* C11: a successful create_stream(amount) under the stored fee rate debits the
\* sender amount in all, fee_amount = floor(amount * fee_bps / 10000) to the
\* treasury and principal = amount - fee_amount to escrow, and stores a stream
\* with amount = principal and withdrawn_amount = 0; with fee_amount = 0 nothing
\* goes to the treasury, and the call never fails for want of one.
C11_CreateSplitsFee ==
    [][LET bps == IF fee_bps = {} THEN 0 ELSE CHOOSE n \in fee_bps : TRUE
       IN  /\ (last'.op = "create_stream" /\ last'.result = "ok") =>
                \E amount \in 1..MaxAmount :
                   LET fee_amount == (amount * bps) \div BpsDenominator
                       principal == amount - fee_amount
                       id == last'.id
                   IN  /\ id = stream_counter + 1
                       /\ DOMAIN streams' = DOMAIN streams \cup {id}
                       /\ streams'[id].sender = last'.caller
                       /\ streams'[id].amount = principal
                       /\ streams'[id].withdrawn_amount = 0
                       /\ fee_amount > 0 => treasury # {}
                       /\ \A h \in Holder :
                             balance'[streams'[id].token][h] =
                                 balance[streams'[id].token][h]
                                 - (IF h = last'.caller THEN amount ELSE 0)
                                 + (IF h = Contract THEN principal ELSE 0)
                                 + (IF fee_amount > 0 /\ h \in treasury THEN fee_amount ELSE 0)
           /\ (last'.op = "create_stream" /\ last'.result = "no_treasury") =>
                /\ treasury = {}
                /\ \E amount \in 1..MaxAmount : (amount * bps) \div BpsDenominator > 0
      ]_vars

\* A stream created under a fee: less than the gross amount is escrowed and the
\* treasury, who is not the sender, holds the fee.
C11_Witness ==
    /\ last.op = "create_stream" /\ last.result = "ok"
    /\ fee_bps = {MaxFeeBps}
    /\ streams[last.id].amount = MaxAmount - 1
    /\ treasury = {"b"}
    /\ \E t \in Token : balance[t]["b"] = InitBal + 1

\* C12: the stored fee rate never exceeds 1000; initialize_fee and update_fee
\* succeed only for a holder of TreasuryManager and only with a rate within the
\* cap, nothing else changes the rate, and a rejected call leaves rate and
\* treasury as they were.
C12_FeeWithinCap ==
    [][/\ \A n \in fee_bps' : n >= 0 /\ n <= MaxFeeBps
       /\ fee_bps' # fee_bps =>
             last'.op \in {"initialize_fee", "update_fee"} /\ last'.result = "ok"
       /\ last'.op \in {"initialize_fee", "update_fee"} =>
             IF last'.result = "ok"
             THEN /\ has_role(last'.caller, "TreasuryManager")
                  /\ fee_bps' # {}
                  /\ last'.op = "update_fee" => treasury' = treasury
                  /\ last'.op = "initialize_fee" => treasury' # {}
                  /\ UNCHANGED <<roles, admin, is_paused, stream_counter, streams, balance>>
             ELSE /\ last'.result \in {"unauthorized", "fee_too_high"}
                  /\ last'.result = "unauthorized" <=>
                        ~has_role(last'.caller, "TreasuryManager")
                  /\ UNCHANGED storage
      ]_vars

\* A TreasuryManager's rate above the cap is rejected while the rate at the
\* cap stays stored.
C12_Witness ==
    /\ last.op = "update_fee" /\ last.result = "fee_too_high"
    /\ has_role(last.caller, "TreasuryManager")
    /\ fee_bps = {MaxFeeBps}

\* C13: while the pause flag is set every create_stream and every withdraw fails
\* with no effect, and the flag changes only through a set_pause made by a holder
\* of the Pauser role.
C13_PausedBlocksUntilSetPause ==
    [][/\ (TRUE \in is_paused /\ last'.op \in {"create_stream", "withdraw"}) =>
             /\ last'.result = "paused"
             /\ UNCHANGED storage
       /\ ((TRUE \in is_paused) # (TRUE \in is_paused')) =>
             /\ last'.op = "set_pause"
             /\ last'.result = "ok"
             /\ has_role(last'.caller, "Pauser")
      ]_vars

\* C14: grant_role and revoke_role change a grant only for a caller who holds
\* Admin at that moment: a call by anyone else is rejected and changes nothing,
\* and a call by a holder, the initial admin or one granted Admin since, succeeds
\* and adds or removes exactly one grant.
C14_OnlyAdminChangesRoles ==
    [][last'.op \in {"grant_role", "revoke_role"} =>
          IF has_role(last'.caller, "Admin")
          THEN /\ last'.result = "ok"
               /\ last'.op = "grant_role" =>
                     \E account \in Addr, role \in Role :
                        roles' = roles \cup {<<account, role>>}
               /\ last'.op = "revoke_role" =>
                     \E account \in Addr, role \in Role :
                        roles' = roles \ {<<account, role>>}
               /\ UNCHANGED <<admin, is_paused, fee_bps, treasury, stream_counter,
                              streams, balance>>
          ELSE /\ last'.result = "unauthorized"
               /\ UNCHANGED storage
      ]_vars

\* The identity that was not the initial admin grants a role after being granted
\* Admin.
C14_Witness ==
    /\ last.op = "grant_role" /\ last.result = "ok"
    /\ last.caller = "b"
    /\ admin = {"a"}
    /\ has_role("b", "Admin")

\* The sum of the amounts of the first k requests.
RECURSIVE SumOfAmounts(_, _)
SumOfAmounts(requests, k) ==
    IF k = 0 THEN 0 ELSE SumOfAmounts(requests, k - 1) + requests[k].amount

\* C15: create_batch_streams is all-or-nothing.  A call that fails moves nothing,
\* stores nothing and leaves the id counter alone; a call that succeeds was given
\* only requests with end_time > start_time and amount > 0, moves the sum of their
\* amounts from the sender to escrow as one transfer, and stores one stream per
\* request, in request order, under consecutive ids, with the request's receiver,
\* amount and times and withdrawn_amount = 0.
C15_BatchAllOrNothing ==
    [][last'.op = "create_batch_streams" =>
          IF last'.result = "ok"
          THEN \E requests \in Batches, token \in Token :
                  LET n == Len(requests)
                      first == stream_counter
                      total == SumOfAmounts(requests, n)
                  IN  /\ \A i \in 1..n :
                            /\ requests[i].end_time > requests[i].start_time
                            /\ requests[i].amount > 0
                      /\ last'.ret = n
                      /\ stream_counter' = first + n
                      /\ DOMAIN streams' = DOMAIN streams \cup ((first + 1)..(first + n))
                      /\ \A id \in DOMAIN streams : streams'[id] = streams[id]
                      /\ \A i \in 1..n :
                            streams'[first + i] =
                                [sender |-> last'.caller,
                                 receiver |-> requests[i].receiver,
                                 token |-> token,
                                 amount |-> requests[i].amount,
                                 start_time |-> requests[i].start_time,
                                 cliff_time |-> requests[i].cliff_time,
                                 end_time |-> requests[i].end_time,
                                 withdrawn_amount |-> 0]
                      /\ balance[token][last'.caller] >= total
                      /\ \A t \in Token, h \in Holder :
                            balance'[t][h] =
                                balance[t][h]
                                - (IF t = token /\ h = last'.caller THEN total ELSE 0)
                                + (IF t = token /\ h = Contract THEN total ELSE 0)
                      /\ UNCHANGED <<roles, admin, is_paused, fee_bps, treasury>>
          ELSE /\ last'.result \in {"bad_time", "bad_amount", "no_funds"}
               /\ UNCHANGED storage
      ]_vars

\* A batch of two requests has been stored under ids 1 and 2 for one transfer of
\* both amounts.
C15_Witness ==
    /\ last.op = "create_batch_streams" /\ last.result = "ok"
    /\ last.ret = 2
    /\ DOMAIN streams = {1, 2}
    /\ \E t \in Token :
          balance[t][Contract] = streams[1].amount + streams[2].amount

\* C16: stream ids come from one counter that starts at 1 and only grows: across
\* create_stream, create_batch_streams and cancel_stream the streams a call
\* creates get the ids that follow the counter, above every id allocated before,
\* so no id is shared and none is reused after its stream is removed.
C16_IdsMonotonic ==
    [][/\ stream_counter' >= stream_counter
       /\ DOMAIN streams' \ DOMAIN streams = (stream_counter + 1)..stream_counter'
       /\ \A id \in DOMAIN streams' \ DOMAIN streams :
             /\ id \notin cancelled
             /\ \A old \in DOMAIN streams \cup cancelled : id > old
       /\ DOMAIN streams' \cup cancelled' = 1..stream_counter'
       /\ DOMAIN streams' \cap cancelled' = {}
       /\ stream_counter' # stream_counter =>
             /\ last'.op \in {"create_stream", "create_batch_streams"}
             /\ last'.result = "ok"
      ]_vars

\* A stream created after a cancellation takes a new id, above the removed one.
C16_Witness ==
    /\ last.op \in {"create_stream", "create_batch_streams"} /\ last.result = "ok"
    /\ cancelled # {}
    /\ last.id \in DOMAIN streams
    /\ last.id = stream_counter
    /\ \A old \in cancelled : last.id > old

\* C17: transfer_receiver succeeds only when authorised by the stream's current
\* receiver, not by its sender or an admin, and changes nothing but the receiver
\* field: the other fields stay and no funds move.  From then on withdraw is
\* authorised for the new receiver and refused to everyone else, the old receiver
\* included.
C17_TransferReceiverFrame ==
    [][/\ (last'.op = "transfer_receiver" /\ last'.id \notin DOMAIN streams) =>
             last'.result = "not_found" /\ UNCHANGED storage
       /\ (last'.op = "transfer_receiver" /\ last'.id \in DOMAIN streams) =>
             IF last'.caller = streams[last'.id].receiver
             THEN /\ last'.result = "ok"
                  /\ \E new_receiver \in Addr :
                        streams' = [streams EXCEPT ![last'.id].receiver = new_receiver]
                  /\ UNCHANGED <<roles, admin, is_paused, fee_bps, treasury,
                                 stream_counter, balance>>
             ELSE /\ last'.result = "auth"
                  /\ UNCHANGED storage
       /\ (last'.op = "withdraw" /\ last'.id \in DOMAIN streams) =>
             /\ last'.result = "ok" => last'.caller = streams[last'.id].receiver
             /\ (/\ last'.caller = streams[last'.id].receiver
                 /\ ~(TRUE \in is_paused)
                 /\ now >= streams[last'.id].start_time
                 /\ unlocked_at(streams[last'.id], now)
                       > streams[last'.id].withdrawn_amount) => last'.result = "ok"
      ]_vars

\* A stream created for b now names a, its sender, as receiver, and a has
\* withdrawn from it.
C17_Witness ==
    /\ last.op = "withdraw" /\ last.result = "ok"
    /\ last.caller = "a"
    /\ streams[last.id].receiver = "a"
    /\ streams[last.id].sender = "a"

\* C18: every operation that fails leaves the state as it was before the call; a
\* create_stream that fails, for its time order, cliff or amount, for the pause,
\* or for a fee with no treasury set, debits nothing, stores nothing and leaves
\* the id counter alone.
C18_FailureChangesNothing ==
    [][/\ last'.result # "ok" => UNCHANGED <<storage, now, lock, cancelled, returned>>
       /\ (last'.op = "create_stream" /\ last'.result # "ok") =>
             /\ last'.result \in {"paused", "bad_time", "bad_cliff", "bad_amount",
                                  "no_funds", "no_treasury"}
             /\ \A t \in Token : balance'[t][last'.caller] = balance[t][last'.caller]
             /\ DOMAIN streams' = DOMAIN streams
             /\ stream_counter' = stream_counter
      ]_vars

\* create_stream has failed for a fee with no treasury set, after the point
\* where the code moves the principal; the sender still holds everything.
C18_Witness ==
    /\ last.op = "create_stream" /\ last.result = "no_treasury"
    /\ fee_bps = {MaxFeeBps}
    /\ treasury = {}
    /\ stream_counter = 0
    /\ \A t \in Token : balance[t][last.caller] = InitBal /\ balance[t][Contract] = 0

\* C19: for amount > 0 and start <= cliff < end, at every time the unlocked amount
\* lies in 0..amount, does not decrease with time, is 0 before the cliff, is the
\* whole amount from end on, and in between is
\* floor(amount * (now - start) / (end - start)).
C19_UnlockedWithinBoundsAndMonotone ==
    \A id \in DOMAIN streams :
        LET s == streams[id]
            linear(t) == (s.amount * (t - s.start_time)) \div (s.end_time - s.start_time)
            expected(t) == IF t < s.cliff_time THEN 0
                           ELSE IF t >= s.end_time THEN s.amount
                           ELSE linear(t)
        IN  /\ \A t \in 0..(MaxMathTime + 1) :
                  /\ unlocked_at(s, t) = expected(t)
                  /\ 0 <= unlocked_at(s, t) /\ unlocked_at(s, t) <= s.amount
                  /\ unlocked_at(s, t) <= unlocked_at(s, t + 1)
            /\ (last.op = "calculate_unlocked" /\ last.id = id) =>
                  /\ last.ret = expected(now)
                  /\ 0 <= last.ret /\ last.ret <= s.amount

\* The amount unlocked part-way along the line of a stream with a cliff after its
\* start, where the division leaves a remainder.
C19_Witness ==
    /\ last.op = "calculate_unlocked"
    /\ LET s == streams[last.id]
       IN  /\ s.start_time < s.cliff_time
           /\ s.cliff_time <= now /\ now < s.end_time
           /\ last.ret > 0 /\ last.ret < s.amount
           /\ last.ret * (s.end_time - s.start_time) < s.amount * (now - s.start_time)

\* C20: create_batch_streams makes neither the pause check nor the fee split: it
\* never fails for the pause flag or for a missing treasury, and whatever fee rate
\* is stored each stream it stores has the requested amount, the sender pays the
\* sum of the amounts to escrow and no one else's balance changes.
C20_BatchSkipsPauseAndFee ==
    [][last'.op = "create_batch_streams" =>
          /\ last'.result \notin {"paused", "no_treasury"}
          /\ last'.result = "ok" =>
                \E requests \in Batches, token \in Token :
                   LET n == Len(requests)
                       total == SumOfAmounts(requests, n)
                   IN  /\ stream_counter' = stream_counter + n
                       /\ \A i \in 1..n :
                             /\ stream_counter + i \in DOMAIN streams'
                             /\ streams'[stream_counter + i].amount = requests[i].amount
                             /\ streams'[stream_counter + i].receiver = requests[i].receiver
                             /\ streams'[stream_counter + i].token = token
                       /\ balance'[token][Contract] = balance[token][Contract] + total
                       /\ balance'[token][last'.caller] = balance[token][last'.caller] - total
                       /\ \A h \in Addr \ {last'.caller} :
                             balance'[token][h] = balance[token][h]
                       /\ UNCHANGED <<is_paused, fee_bps, treasury>>
      ]_vars

\* A batch has been stored while the contract is paused and the fee rate is at
\* the cap: the stream holds the whole requested amount and the treasury nothing.
C20_Witness ==
    /\ last.op = "create_batch_streams" /\ last.result = "ok"
    /\ last.ret = 1
    /\ stream_counter = 1
    /\ is_paused = {TRUE}
    /\ fee_bps = {MaxFeeBps}
    /\ treasury = {"b"}
    /\ streams[1].amount = MaxAmount
    /\ \A t \in Token : balance[t]["b"] = InitBal /\ balance[t][Contract] = MaxAmount

\* C21: initialization happens exactly once: after a successful initialize every
\* later initialize fails and leaves the role grants, the legacy admin and the
\* pause flag as they were.
C21_InitializeOnce ==
    [][(last'.op = "initialize" /\ admin # {}) =>
          /\ last'.result # "ok"
          /\ UNCHANGED <<roles, admin, is_paused>>
      ]_vars

\* C22: once no identity holds Admin, after the last Admin revoked its own grant,
\* no operation makes a grant_role or revoke_role succeed or gives any identity
\* the Admin role again.
C22_AdminLockoutIsFinal ==
    [][(admin # {} /\ \A account \in Addr : ~has_role(account, "Admin")) =>
          /\ \A account \in Addr : <<account, "Admin">> \notin roles'
          /\ last'.op \in {"grant_role", "revoke_role"} => last'.result # "ok"
      ]_vars

\* What the streams stored under ids still hold of a token: the sum of
\* amount - withdrawn_amount.
RECURSIVE StillOwed(_, _, _)
StillOwed(strs, ids, token) ==
    IF ids = {} THEN 0
    ELSE LET id == CHOOSE i \in ids : TRUE
         IN  (IF strs[id].token = token
              THEN strs[id].amount - strs[id].withdrawn_amount ELSE 0)
             + StillOwed(strs, ids \ {id}, token)

C24_PaidWithinAmount ==
    \A id \in DOMAIN streams :
        id \in DOMAIN returned => returned[id] <= streams[id].amount

\* C25: while the pause flag is set no funds leave escrow: withdraw and
\* cancel_stream fail, every stored stream stays stored with its
\* amount - withdrawn_amount, and this lasts until a set_pause(false);
\* transfer_receiver still succeeds for the current receiver.
C25_PausedEscrowFrozen ==
    [][(TRUE \in is_paused) =>
          /\ last'.op \in GuardedOps => last'.result = "paused"
          /\ \A token \in Token : balance'[token][Contract] >= balance[token][Contract]
          /\ \A id \in DOMAIN streams :
                /\ id \in DOMAIN streams'
                /\ streams'[id].amount - streams'[id].withdrawn_amount
                      = streams[id].amount - streams[id].withdrawn_amount
          /\ (/\ last'.op = "transfer_receiver"
              /\ last'.id \in DOMAIN streams
              /\ last'.caller = streams[last'.id].receiver) => last'.result = "ok"
          /\ ~(TRUE \in is_paused') =>
                /\ last'.op = "set_pause"
                /\ last'.result = "ok"
      ]_vars

\* C26: every stored stream can be drained in full: once the clock has reached
\* its end_time, with the contract not paused and withdrawn_amount < amount, a
\* withdraw by the current receiver succeeds and leaves
\* withdrawn_amount = amount, and from then on every withdraw and cancel_stream
\* on the stream fails.
C26_DrainableAtEnd ==
    [][/\ (/\ last'.op = "withdraw"
           /\ last'.id \in DOMAIN streams
           /\ last'.caller = streams[last'.id].receiver
           /\ ~(TRUE \in is_paused)
           /\ now >= streams[last'.id].end_time
           /\ streams[last'.id].withdrawn_amount < streams[last'.id].amount) =>
              /\ last'.result = "ok"
              /\ streams'[last'.id].withdrawn_amount = streams'[last'.id].amount
       /\ (/\ last'.op \in GuardedOps
           /\ last'.id \in DOMAIN streams
           /\ streams[last'.id].withdrawn_amount = streams[last'.id].amount) =>
              /\ last'.result # "ok"
              /\ UNCHANGED storage
      ]_vars
====
